---- MODULE Spec2Model ----
(***************************************************************************)
(* Model of the stale-while-revalidate disk cache of the                   *)
(* WholeEarthSatelliteImage endpoint                                       *)
(* (src/endpoints/WholeEarthSatelliteImage/index.js).                      *)
(*                                                                         *)
(* Node runs one handler at a time: the code between two awaits is one     *)
(* atomic step.  Every action below is one such synchronous section: it    *)
(* starts when a request, a setImmediate callback or an awaited upstream   *)
(* call is delivered and ends at the next await or at the return.          *)
(***************************************************************************)
EXTENDS Integers, Sequences, FiniteSets, TLC

\* ---------------------------------------------------------------- bounds
MaxReqs  == 1      \* GET / handlers that can be in flight at once
MaxTasks == 2      \* setImmediate callbacks that can be queued or running
MaxLen   == 2      \* length of the item list the provider returns
MaxTicks == 2      \* number of times the clock advances

Ids == {"a", "b"}  \* image identifiers the provider can name

\* ------------------------------------------------------------- constants
\* index.js:11   12 hours in milliseconds
CACHE_DURATION == 12 * 60 * 60 * 1000

\* the clock advances by one millisecond or by one millisecond less than
\* the freshness window, so that the ages window-1, window and window+1
\* all occur
TickSteps == {1, CACHE_DURATION - 1}

Reqs  == 1..MaxReqs
Tasks == 1..MaxTasks

VARIABLES
    now,           \* Date.now(), in milliseconds since the start
    ticks,         \* how often the clock has advanced
    apiKeySet,     \* process.env.NASA_API_KEY is configured
    dirExists,     \* cache/ and cache/images exist
    files,         \* the file names present in CACHE_IMAGES_DIR
    cacheFile,     \* CACHE_FILE: whether it exists, and its text
    isRefreshing,  \* the module-level refresh flag
    req,           \* the GET / handlers, by slot
    task,          \* the refreshCacheInBackground invocations, by slot
    last           \* the step taken last and what it answered

vars == <<now, ticks, apiKeySet, dirExists, files, cacheFile, isRefreshing,
          req, task, last>>

\* ------------------------------------------------------------ file names
\* index.js:180, 267   `${img.image}.png`
FinalName(id) == [kind |-> "final", ts |-> 0, id |-> id]

\* index.js:181   `temp_${Date.now()}_${img.image}.png`
TempName(ts, id) == [kind |-> "temp", ts |-> ts, id |-> id]

NoName == [kind |-> "none", ts |-> 0, id |-> ""]

\* -------------------------------------------------------- the JSON record
\* index.js:57-61   JSON.stringify({timestamp, data}): the text is a
\* sequence of tokens, the timestamp first and one token per item after it
JSONstringify(cacheData) ==
    <<[tag |-> "timestamp", num |-> cacheData.timestamp, str |-> ""]>> \o
    [i \in 1..Len(cacheData.data) |->
        [tag |-> "item", num |-> 0, str |-> cacheData.data[i]]]

\* a parse that loses the last item
JSONparseTruncated(text) ==
    [timestamp |-> text[1].num,
     data      |-> [i \in 1..(Len(text) - 2) |-> text[i + 1].str]]

\* index.js:31   JSON.parse(text)
JSONparse(text) ==
    [timestamp |-> text[1].num,
     data      |-> [i \in 1..(Len(text) - 1) |-> text[i + 1].str]]

NoCacheFile == [exists |-> FALSE, text |-> <<>>]


\* ------------------------------------------------------------ getCachedData
Null == [hit |-> FALSE, data |-> <<>>, isStale |-> FALSE]

\* a check that is content with one blob (some instead of every)
SomeImageExists(data, fs) ==
    \E i \in 1..Len(data) : FinalName(data[i]) \in fs

\* index.js:35-37   cachedData.data.every(img => fs.existsSync(<img>.png))
ImagesExist(data, fs) ==
    \A i \in 1..Len(data) : FinalName(data[i]) \in fs

\* a comparison that is strict (> instead of >=)
IsStaleStrict(t, timestamp) == t - timestamp > CACHE_DURATION

\* index.js:42   now - cachedData.timestamp >= CACHE_DURATION
IsStale(t, timestamp) == t - timestamp >= CACHE_DURATION

\* index.js:25-51
GetCachedData(cf, fs, t) ==
    IF ~cf.exists THEN Null
    ELSE LET cachedData == JSONparse(cf.text) IN
         IF ImagesExist(cachedData.data, fs)
         THEN [hit     |-> TRUE,
               data    |-> cachedData.data,
               isStale |-> IsStale(t, cachedData.timestamp)]
         ELSE Null

\* --------------------------------------------------------------- saveToCache
\* a save that keeps the time of the record it replaces
SaveKeepsTimestamp(cf, data, t, writeOk) ==
    IF writeOk
    THEN [exists |-> TRUE,
          text   |-> JSONstringify([timestamp |-> IF cf.exists
                                                  THEN JSONparse(cf.text).timestamp
                                                  ELSE t,
                                    data |-> data])]
    ELSE cf

\* index.js:54-65   the new content of CACHE_FILE; a write that fails is
\* logged and leaves the file as it was
SaveToCache(cf, data, t, writeOk) ==
    IF writeOk
    THEN [exists |-> TRUE,
          text   |-> JSONstringify([timestamp |-> t, data |-> data])]
    ELSE cf

\* a save without the try/catch around the write
SaveRethrows(writeOk) == ~writeOk

\* index.js:55, 62-64   the catch of saveToCache logs the error, so the
\* call never throws to its caller
SaveThrows(writeOk) == FALSE

\* ------------------------------------------------------- finalizeCacheUpdate
\* a publish that deletes nothing
OldFilesKept(fs, downloadedImages) == {}

\* index.js:99-102   the files of the directory that are no temp file of
\* this batch
OldFiles(fs, downloadedImages) ==
    fs \ {downloadedImages[i].tempPath : i \in 1..Len(downloadedImages)}

\* index.js:110-113   renameSync in batch order; a rename whose source is
\* missing throws, which ends the loop (the catch of line 118 logs it)
RECURSIVE RenameFrom(_, _, _)
RenameFrom(fs, downloadedImages, i) ==
    IF i > Len(downloadedImages) THEN fs
    ELSE IF downloadedImages[i].tempPath \notin fs THEN fs
    ELSE RenameFrom((fs \ {downloadedImages[i].tempPath})
                        \cup {downloadedImages[i].finalFilename},
                    downloadedImages, i + 1)

\* a publish that renames first and deletes the files listed before
RenameThenDelete(fs, dir, downloadedImages) ==
    IF dir
    THEN RenameFrom(fs, downloadedImages, 1) \ OldFiles(fs, downloadedImages)
    ELSE fs

\* index.js:94-121   the files of the directory after the call
FinalizeCacheUpdate(fs, dir, downloadedImages) ==
    IF dir
    THEN RenameFrom(fs \ OldFiles(fs, downloadedImages), downloadedImages, 1)
    ELSE fs

\* ------------------------------------------------------------- the provider
RECURSIVE SeqsOfLen(_)
SeqsOfLen(n) ==
    IF n = 0 THEN {<<>>}
    ELSE {Append(s, x) : s \in SeqsOfLen(n - 1), x \in Ids}

\* the item lists the provider can answer with, the empty one included
UpstreamLists == UNION {SeqsOfLen(n) : n \in 0..MaxLen}

\* what the bulk call can come back with: a rejected fetch, a non-success
\* status, or a list
ListResponses ==
    {[kind |-> "reject", data |-> <<>>], [kind |-> "status", data |-> <<>>]}
    \cup {[kind |-> "ok", data |-> d] : d \in UpstreamLists}

\* index.js:141-153, 238-250   the three throws of the bulk fetch
ListFetchThrows(resp) == resp.kind # "ok" \/ Len(resp.data) = 0

\* ---------------------------------------------------------------- decisions
\* a refresh that does not look at the flag
RefreshNeverSkips(flag) == FALSE

\* index.js:126   if (isRefreshing) return
RefreshSkips(flag) == flag

\* a reset that is skipped when the bulk fetch threw
FlagKeptOnListFailure(outcome) == outcome = "list_failed"

\* index.js:225-227   finally { isRefreshing = false }, on every outcome
FinallyFlag(outcome) == FALSE

\* a catch block that drops the cache when the refresh failed
CatchClearsCache(cf, fs) == [cacheFile |-> NoCacheFile, files |-> {}]

\* index.js:222-225   the catch block logs and leaves the cache as it is
CatchRefreshError(cf, fs) == [cacheFile |-> cf, files |-> fs]

\* a refresh that publishes and saves whatever the loop produced
AlwaysPublish(downloadedImages) == TRUE

\* index.js:210   successfullyDownloadedIds.length > 0
HasDownloads(downloadedImages) == Len(downloadedImages) > 0

\* a handler without the demo-mode return
DemoIgnored(demoMode) == FALSE

\* index.js:294   if (req.demoMode) return res.json([])
DemoReturnsEmpty(demoMode) == demoMode

\* a read that queues the refresh in demo mode too
RefreshWhenStale(cacheResult, demoMode) == cacheResult.isStale

\* a read that never queues the refresh
NeverRefresh(cacheResult, demoMode) == FALSE

\* index.js:314   cacheResult.isStale && !req.demoMode
ShouldRefresh(cacheResult, demoMode) == cacheResult.isStale /\ ~demoMode

\* a handler whose inner catch lets the error reach the outer one
FetchErrorRethrown(error) == [status |-> 500, body |-> <<>>]

\* index.js:304-308, 325-326   the inner catch of the handler replaces the
\* result by an empty list, which is then answered as a success
CatchFetchError(error) == [status |-> 200, body |-> <<>>]

\* an unlink of the record file without the existence test before it
UnlinkUnguarded(cf) == [cacheFile |-> NoCacheFile, threw |-> ~cf.exists]

\* index.js:376-378   if (fs.existsSync(CACHE_FILE)) fs.unlinkSync(CACHE_FILE)
UnlinkCacheFile(cf) == [cacheFile |-> NoCacheFile, threw |-> FALSE]

\* a clear that leaves the staged files of a running refresh in place
ClearKeepsTemps(fs, dir) == IF dir THEN {f \in fs : f.kind = "temp"} ELSE fs

\* index.js:381-386   every file of the image directory is unlinked, if
\* the directory exists
ClearedFiles(fs, dir) == IF dir THEN {} ELSE fs

\* a loop that puts each downloaded item in front of the earlier ones
UnshiftImage(imagesWithUrls, img) == <<img>> \o imagesWithUrls

\* index.js:198-202, 271-275   imagesWithUrls.push({...img, ...})
PushImage(imagesWithUrls, img) == Append(imagesWithUrls, img)

\* index.js:325   cacheResult.data.map(img => img.image)
ImageIds(data) == [i \in 1..Len(data) |-> data[i]]

\* ------------------------------------------------------------------- state
IdleReq == [pc |-> "idle", data |-> <<>>, idx |-> 0, imagesWithUrls |-> <<>>]

\* attempts is history: whether the download of each item the loop has
\* gone through succeeded
NoTask == [pc |-> "none", data |-> <<>>, idx |-> 0, tempFilename |-> NoName,
           downloadedImages |-> <<>>, imagesWithUrls |-> <<>>,
           attempts |-> <<>>]

\* what the step taken last was: the operation, the slot it ran in, whether
\* the request was in demo mode, how it ended, and the status and body of
\* the response it sent (status 0: none sent); ok tells, for a step in
\* which a download returned, whether it succeeded; pruned is the set of
\* files the publish of that step unlinked
Event(op, who, demoMode, out, status, body) ==
    [op |-> op, who |-> who, demoMode |-> demoMode, out |-> out,
     status |-> status, body |-> body, ok |-> FALSE, pruned |-> {}]

Downloaded(event, ok) == [event EXCEPT !.ok = ok]

Pruned(event, oldFiles) == [event EXCEPT !.pruned = oldFiles]

\* The process starts with nothing in flight.  The disk is either empty (a
\* fresh deployment) or holds what an earlier run of the process saved: a
\* record and the blobs of its items.
Init ==
    /\ now = 0
    /\ ticks = 0
    /\ apiKeySet \in BOOLEAN
    /\ \/ /\ dirExists = FALSE
          /\ files = {}
          /\ cacheFile = NoCacheFile
       \/ \E data \in UpstreamLists \ {<<>>} :
             /\ dirExists = TRUE
             /\ files = {FinalName(data[i]) : i \in 1..Len(data)}
             /\ cacheFile = SaveToCache(NoCacheFile, data, 0, TRUE)
    /\ isRefreshing = FALSE
    /\ req = [r \in Reqs |-> IdleReq]
    /\ task = [t \in Tasks |-> NoTask]
    /\ last = Event("start", 0, FALSE, "", 0, <<>>)

FreeTasks == {t \in Tasks : task[t].pc = "none"}
IdleReqs  == {r \in Reqs : req[r].pc = "idle"}
Lowest(S) == CHOOSE x \in S : \A y \in S : x <= y


\* ------------------------------------------------------------ GET / handler
\* index.js:286-326 up to the first await.  The handler loads the cache;
\* a hit is answered at once (a stale one also queues the refresh with
\* setImmediate), a miss in demo mode is answered with [], and any other
\* miss starts fetchEarthImages, which throws at once without a key and
\* otherwise awaits the bulk list call.
ReadStart(r, demoMode) ==
    /\ IdleReqs # {}
    /\ r = Lowest(IdleReqs)
    /\ LET cacheResult == GetCachedData(cacheFile, files, now) IN
       IF ~cacheResult.hit
       THEN /\ UNCHANGED task
            /\ IF DemoReturnsEmpty(demoMode)
               THEN /\ last' = Event("read", r, demoMode, "miss_demo", 200, <<>>)
                    /\ UNCHANGED req
               ELSE IF ~apiKeySet
               THEN /\ last' = Event("read", r, demoMode, "miss_nokey",
                                     CatchFetchError("nokey").status,
                                     CatchFetchError("nokey").body)
                    /\ UNCHANGED req
               ELSE /\ last' = Event("read", r, demoMode, "miss_fetch", 0, <<>>)
                    /\ req' = [req EXCEPT ![r].pc = "list"]
       ELSE /\ UNCHANGED req
            /\ IF ShouldRefresh(cacheResult, demoMode)
               THEN /\ FreeTasks # {}
                    /\ task' = [task EXCEPT
                                  ![Lowest(FreeTasks)].pc = "scheduled"]
                    /\ last' = Event("read", r, demoMode, "hit_refresh", 200,
                                     ImageIds(cacheResult.data))
               ELSE /\ UNCHANGED task
                    /\ last' = Event("read", r, demoMode,
                                     IF cacheResult.isStale
                                     THEN "hit_stale_demo" ELSE "hit_fresh",
                                     200, ImageIds(cacheResult.data))
    /\ UNCHANGED <<now, ticks, apiKeySet, dirExists, files, cacheFile,
                   isRefreshing>>

\* index.js:238-268, 304-308, 325-326   the bulk call of fetchEarthImages
\* returns.  A throw is caught by the handler, which answers []; a list
\* starts the download of its first item (downloadAndCacheImage creates
\* the directories before it awaits).
SyncList(r, resp) ==
    /\ req[r].pc = "list"
    /\ IF ListFetchThrows(resp)
       THEN /\ req' = [req EXCEPT ![r] = IdleReq]
            /\ last' = Event("sync", r, FALSE, "list_failed",
                             CatchFetchError("list_failed").status,
                             CatchFetchError("list_failed").body)
            /\ UNCHANGED dirExists
       ELSE /\ req' = [req EXCEPT ![r] = [pc |-> "dl", data |-> resp.data,
                                          idx |-> 1, imagesWithUrls |-> <<>>]]
            /\ last' = Event("sync", r, FALSE, "list_ok", 0, <<>>)
            /\ dirExists' = TRUE
    /\ UNCHANGED <<now, ticks, apiKeySet, files, cacheFile, isRefreshing,
                   task>>

\* index.js:255-283, 301-303, 325-326   the download of one item of
\* fetchEarthImages returns.  A success writes the bytes straight to the
\* final name; a failure skips the item.  After the last item the handler
\* saves the record and answers the ids (a throw of the save would be
\* caught by the handler like one of the fetch).
SyncDownload(r, ok, writeOk) ==
    /\ req[r].pc = "dl"
    /\ LET img    == req[r].data[req[r].idx]
           images == IF ok THEN PushImage(req[r].imagesWithUrls, img)
                     ELSE req[r].imagesWithUrls
       IN /\ files' = IF ok THEN files \cup {FinalName(img)} ELSE files
          /\ IF req[r].idx < Len(req[r].data)
             THEN /\ req' = [req EXCEPT ![r].idx = @ + 1,
                                        ![r].imagesWithUrls = images]
                  /\ last' = Downloaded(Event("sync", r, FALSE, "item", 0,
                                              <<>>), ok)
                  /\ UNCHANGED cacheFile
             ELSE /\ req' = [req EXCEPT ![r] = IdleReq]
                  /\ cacheFile' = SaveToCache(cacheFile, images, now, writeOk)
                  /\ last' = Downloaded(
                                Event("sync", r, FALSE,
                                      IF writeOk THEN "saved" ELSE "save_failed",
                                      IF SaveThrows(writeOk)
                                      THEN CatchFetchError("save").status
                                      ELSE 200,
                                      IF SaveThrows(writeOk)
                                      THEN CatchFetchError("save").body
                                      ELSE ImageIds(images)), ok)
    /\ UNCHANGED <<now, ticks, apiKeySet, dirExists, isRefreshing, task>>

\* ------------------------------------------------- refreshCacheInBackground
\* index.js:125-143   the setImmediate callback runs up to its first await
RefreshEnter(t) ==
    /\ task[t].pc = "scheduled"
    /\ IF RefreshSkips(isRefreshing)
       THEN /\ task' = [task EXCEPT ![t] = NoTask]
            /\ last' = Event("refresh", t, FALSE, "skipped", 0, <<>>)
            /\ UNCHANGED <<isRefreshing, files, cacheFile>>
       ELSE IF ~apiKeySet
       THEN LET kept == CatchRefreshError(cacheFile, files) IN
            /\ task' = [task EXCEPT ![t] = NoTask]
            /\ last' = Event("refresh", t, FALSE, "nokey", 0, <<>>)
            /\ isRefreshing' = FinallyFlag("nokey")
            /\ cacheFile' = kept.cacheFile
            /\ files' = kept.files
       ELSE /\ task' = [task EXCEPT ![t].pc = "list"]
            /\ last' = Event("refresh", t, FALSE, "entered", 0, <<>>)
            /\ isRefreshing' = TRUE
            /\ UNCHANGED <<files, cacheFile>>
    /\ UNCHANGED <<now, ticks, apiKeySet, dirExists, req>>

\* index.js:141-186   the bulk call of the refresh returns.  A throw goes
\* through catch and finally; a list starts the download of its first
\* item under a temp name made from the current time.
RefreshList(t, resp) ==
    /\ task[t].pc = "list"
    /\ IF ListFetchThrows(resp)
       THEN LET kept == CatchRefreshError(cacheFile, files) IN
            /\ task' = [task EXCEPT ![t] = NoTask]
            /\ last' = Event("refresh", t, FALSE, "list_failed", 0, <<>>)
            /\ isRefreshing' = FinallyFlag("list_failed")
            /\ cacheFile' = kept.cacheFile
            /\ files' = kept.files
            /\ UNCHANGED dirExists
       ELSE /\ task' = [task EXCEPT ![t] =
                          [pc |-> "dl", data |-> resp.data, idx |-> 1,
                           tempFilename |-> TempName(now, resp.data[1]),
                           downloadedImages |-> <<>>,
                           imagesWithUrls |-> <<>>,
                           attempts |-> <<>>]]
            /\ last' = Event("refresh", t, FALSE, "list_ok", 0, <<>>)
            /\ dirExists' = TRUE
            /\ UNCHANGED <<isRefreshing, files, cacheFile>>
    /\ UNCHANGED <<now, ticks, apiKeySet, req>>

\* index.js:168-227   the download of one item of the refresh returns.  A
\* success writes the temp file and records it; a failure skips the item.
\* After the last item the cycle publishes and saves if anything was
\* downloaded, and resets the flag.
RefreshDownload(t, ok, writeOk) ==
    /\ task[t].pc = "dl"
    /\ LET img        == task[t].data[task[t].idx]
           staged     == IF ok THEN files \cup {task[t].tempFilename}
                         ELSE files
           downloaded == IF ok
                         THEN Append(task[t].downloadedImages,
                                     [tempPath |-> task[t].tempFilename,
                                      finalFilename |-> FinalName(img)])
                         ELSE task[t].downloadedImages
           images     == IF ok THEN PushImage(task[t].imagesWithUrls, img)
                         ELSE task[t].imagesWithUrls
       IN IF task[t].idx < Len(task[t].data)
          THEN /\ task' = [task EXCEPT
                             ![t].idx = @ + 1,
                             ![t].tempFilename =
                                 TempName(now, task[t].data[task[t].idx + 1]),
                             ![t].downloadedImages = downloaded,
                             ![t].imagesWithUrls = images,
                             ![t].attempts = Append(@, ok)]
               /\ files' = staged
               /\ last' = Downloaded(Event("refresh", t, FALSE, "item", 0,
                                           <<>>), ok)
               /\ UNCHANGED <<cacheFile, isRefreshing>>
          ELSE /\ task' = [task EXCEPT ![t] = NoTask]
               /\ IF HasDownloads(downloaded)
                  THEN /\ files' = FinalizeCacheUpdate(staged, dirExists,
                                                       downloaded)
                       /\ cacheFile' = SaveToCache(cacheFile, images, now,
                                                   writeOk)
                       /\ last' = Pruned(
                                     Downloaded(
                                       Event("refresh", t, FALSE,
                                             IF writeOk THEN "saved"
                                             ELSE "save_failed", 0,
                                             ImageIds(images)), ok),
                                     IF dirExists
                                     THEN OldFiles(staged, downloaded)
                                     ELSE {})
                       /\ isRefreshing' = FinallyFlag("saved")
                  ELSE /\ files' = staged
                       /\ last' = Downloaded(Event("refresh", t, FALSE,
                                                   "nothing", 0, <<>>), ok)
                       /\ isRefreshing' = FinallyFlag("nothing")
                       /\ UNCHANGED cacheFile
    /\ UNCHANGED <<now, ticks, apiKeySet, dirExists, req>>

\* -------------------------------------------------------- GET /clear-cache
\* index.js:373-398   the handler is synchronous: it unlinks the record
\* file and every image file and answers 200; a throw on the way is
\* answered 500 by the catch block
ClearCache ==
    /\ LET unlinked == UnlinkCacheFile(cacheFile) IN
       /\ cacheFile' = unlinked.cacheFile
       /\ IF unlinked.threw
          THEN /\ UNCHANGED files
               /\ last' = Event("clear", 0, FALSE, "failed", 500, <<>>)
          ELSE /\ files' = ClearedFiles(files, dirExists)
               /\ last' = Event("clear", 0, FALSE, "cleared", 200, <<>>)
    /\ UNCHANGED <<now, ticks, apiKeySet, dirExists, isRefreshing, req, task>>

\* ------------------------------------------------------------------ clock
Tick(d) ==
    /\ ticks < MaxTicks
    /\ ticks' = ticks + 1
    /\ now' = now + d
    /\ last' = Event("tick", 0, FALSE, "", 0, <<>>)
    /\ UNCHANGED <<apiKeySet, dirExists, files, cacheFile, isRefreshing,
                   req, task>>

Next ==
    \/ \E r \in Reqs, demoMode \in BOOLEAN : ReadStart(r, demoMode)
    \/ \E r \in Reqs, resp \in ListResponses : SyncList(r, resp)
    \/ \E r \in Reqs, ok \in BOOLEAN, writeOk \in BOOLEAN :
           SyncDownload(r, ok, writeOk)
    \/ \E t \in Tasks : RefreshEnter(t)
    \/ \E t \in Tasks, resp \in ListResponses : RefreshList(t, resp)
    \/ \E t \in Tasks, ok \in BOOLEAN, writeOk \in BOOLEAN :
           RefreshDownload(t, ok, writeOk)
    \/ ClearCache
    \/ \E d \in TickSteps : Tick(d)

Spec == Init /\ [][Next]_vars

\* Every callback queued with setImmediate eventually runs, every awaited
\* upstream call of a refresh cycle eventually returns or fails, and the
\* event loop then runs its continuation.
LiveSpec ==
    /\ Spec
    /\ \A t \in Tasks :
          /\ WF_vars(RefreshEnter(t))
          /\ WF_vars(\E resp \in ListResponses : RefreshList(t, resp))
          /\ WF_vars(\E ok \in BOOLEAN, writeOk \in BOOLEAN :
                         RefreshDownload(t, ok, writeOk))


\* ===================================================================== claims
\* the refresh cycles between their entry (flag set) and their exit
RunningTasks == {t \in Tasks : task[t].pc \in {"list", "dl"}}

\* C1: refresh mutual exclusion.  At most one background refresh cycle is
\* between its entry and its exit at any time, the flag is set exactly
\* while one is; and an invocation that finds the flag set returns without
\* fetching, staging, publishing or saving: it leaves the files, the
\* record, the flag, the requests and the other invocations as they were.
C1_RefreshMutualExclusion ==
    /\ [](/\ Cardinality(RunningTasks) <= 1
          /\ isRefreshing <=> (RunningTasks # {}))
    /\ [][\A t \in Tasks :
            (task[t].pc = "scheduled" /\ isRefreshing
                /\ task'[t].pc # "scheduled")
            => /\ task'[t] = NoTask
               /\ \A u \in Tasks \ {t} : task'[u] = task[u]
               /\ UNCHANGED <<files, cacheFile, isRefreshing, dirExists,
                              req>>]_vars

\* a second invocation was skipped while a cycle is between entry and exit
C1_Witness ==
    /\ last.op = "refresh" /\ last.out = "skipped"
    /\ Cardinality(RunningTasks) = 1
    /\ isRefreshing


\* C2: every background refresh cycle that has entered Refreshing
\* eventually is back at Idle with the flag reset, whatever its outcome,
\* provided each upstream call eventually returns or fails.
C2_RefreshReturnsToIdle ==
    \A t \in Tasks :
        (task[t].pc \in {"list", "dl"})
            ~> (task[t].pc = "none" /\ ~isRefreshing)

\* a cycle that ended in an error (a save that failed, a bulk fetch that
\* failed, or no download at all) has reset the flag
C2_Witness ==
    /\ last.op = "refresh"
    /\ last.out \in {"save_failed", "list_failed", "nothing"}
    /\ task[last.who].pc = "none"
    /\ ~isRefreshing


\* C3: a triggered background refresh whose bulk item-list fetch fails
\* (rejected fetch, non-success status, missing credential, empty list)
\* changes neither the persisted record nor the set of blobs: no step of
\* such a cycle, from its entry to its abort, touches either.
C3_ListFailureKeepsCache ==
    [][\A t \in Tasks :
         (\/ task[t].pc = "scheduled" /\ task'[t].pc \in {"none", "list"}
          \/ task[t].pc = "list" /\ task'[t].pc = "none")
         => UNCHANGED <<cacheFile, files>>]_vars

\* a cycle was aborted by its bulk fetch while a record and blobs exist
C3_Witness ==
    /\ last.op = "refresh" /\ last.out = "list_failed"
    /\ cacheFile.exists
    /\ files # {}

\* the scheduled invocations that have not run yet
Scheduled(tk) == {t \in Tasks : tk[t].pc = "scheduled"}

\* C4: a non-demo read that loads a present but stale record answers 200
\* with that record's id list in the same step (it waits for nothing),
\* queues exactly one invocation of the refresh, and starts none: the
\* files, the record and the flag are as before.
C4_StaleReadServesAndSchedulesOnce ==
    [][(/\ last'.op = "read" /\ ~last'.demoMode
        /\ cacheFile.exists
        /\ ImagesExist(JSONparse(cacheFile.text).data, files)
        /\ now - JSONparse(cacheFile.text).timestamp >= CACHE_DURATION)
       => /\ last'.status = 200
          /\ last'.body = JSONparse(cacheFile.text).data
          /\ req' = req
          /\ Cardinality(Scheduled(task')) = Cardinality(Scheduled(task)) + 1
          /\ \A t \in Tasks : task'[t] # task[t] =>
                 task[t] = NoTask /\ task'[t].pc = "scheduled"
          /\ UNCHANGED <<cacheFile, files, isRefreshing>>]_vars

\* a stale record of two items was served and its refresh is queued
C4_Witness ==
    /\ last.op = "read" /\ ~last.demoMode /\ last.status = 200
    /\ Len(last.body) = 2
    /\ cacheFile.exists
    /\ last.body = JSONparse(cacheFile.text).data
    /\ now - JSONparse(cacheFile.text).timestamp >= CACHE_DURATION
    /\ Scheduled(task) # {}


\* the final names of a list of ids
FinalNames(ids) == {FinalName(ids[i]) : i \in 1..Len(ids)}

\* C5: a synchronous fetch-and-cache cycle in which N of the M upstream
\* items download persists a record with exactly those N items, and
\* afterwards the Image Store holds blobs for exactly those N ids and no
\* others, whatever the store held before.  Stated for the cycles that end
\* with their N blobs in place (none was removed while the cycle ran), so
\* that only a blob of another id can violate it.
C5_SyncCycleExactBlobs ==
    [][\A r \in Reqs :
         (/\ req[r].pc = "dl" /\ req'[r].pc = "idle" /\ last'.out = "saved"
          /\ FinalNames(last'.body) \subseteq files')
         => /\ cacheFile'.exists
            /\ JSONparse(cacheFile'.text).data = last'.body
            /\ files' = FinalNames(last'.body)]_vars


\* the ids of a list are pairwise distinct
Distinct(ids) ==
    \A i \in 1..Len(ids), j \in 1..Len(ids) : ids[i] = ids[j] => i = j

\* C6: after publish (finalizeCacheUpdate) of a batch of K staged items
\* with pairwise distinct ids, whose temp files are in the store when
\* publish starts, the Image Store holds exactly K blobs, one under the
\* final name of each batch item: no blob of the previous set and no
\* temp-named file remains.
C6_PublishLeavesExactlyTheBatch ==
    [][\A t \in Tasks :
         (/\ task[t].pc = "dl" /\ task'[t].pc = "none"
          /\ last'.out \in {"saved", "save_failed"}
          /\ Distinct(last'.body)
          /\ \A i \in 1..Len(task[t].downloadedImages) :
                 task[t].downloadedImages[i].tempPath \in files)
         => /\ files' = FinalNames(last'.body)
            /\ Cardinality(files') = Len(last'.body)
            /\ \A f \in files' : f.kind = "final"]_vars

\* a batch of two items was published
C6_Witness ==
    /\ last.op = "refresh" /\ last.out = "saved"
    /\ Len(last.body) = 2 /\ Distinct(last.body)
    /\ files = FinalNames(last.body)

\* C7: cross-validation on load.  A read that finds a persisted record of
\* which at least one item has no blob in the Image Store treats the cache
\* as absent: it answers none of the record's ids and queues no refresh;
\* in demo mode or without a credential it answers [], otherwise it
\* starts the synchronous fetch.
C7_LoadRejectsMissingBlob ==
    [][(/\ last'.op = "read"
        /\ cacheFile.exists
        /\ \E i \in 1..Len(JSONparse(cacheFile.text).data) :
               FinalName(JSONparse(cacheFile.text).data[i]) \notin files)
       => /\ last'.body = <<>>
          /\ task' = task
          /\ \/ last'.status = 200 /\ (last'.demoMode \/ ~apiKeySet)
                                   /\ req' = req
             \/ last'.status = 0 /\ ~last'.demoMode
                                 /\ req'[last'.who].pc = "list"]_vars

\* a read met a record of two items of which exactly one blob is missing
C7_Witness ==
    /\ last.op = "read" /\ last.body = <<>>
    /\ cacheFile.exists
    /\ \E i, j \in 1..Len(JSONparse(cacheFile.text).data) :
          /\ FinalName(JSONparse(cacheFile.text).data[i]) \notin files
          /\ FinalName(JSONparse(cacheFile.text).data[j]) \in files


\* C8: round trip.  Directly after a save of a record whose referenced
\* blobs all exist, load returns the ordered item list that was saved.
C8_SaveLoadRoundTrip ==
    (/\ last.op \in {"sync", "refresh"} /\ last.out = "saved"
     /\ FinalNames(last.body) \subseteq files)
    => /\ GetCachedData(cacheFile, files, now).hit
       /\ GetCachedData(cacheFile, files, now).data = last.body

\* a list of two different items was saved with both blobs in place
C8_Witness ==
    /\ last.op \in {"sync", "refresh"} /\ last.out = "saved"
    /\ Len(last.body) = 2 /\ last.body[1] # last.body[2]
    /\ FinalNames(last.body) \subseteq files

\* the freshness window of the specification: 12 hours, in milliseconds
FreshnessWindow == 43200000

\* C9: freshness policy.  For a loaded record with capturedAt = now - d,
\* isStale is true if and only if d >= 12 hours: a record whose age is
\* exactly the window is stale, one a millisecond younger is fresh.
C9_StaleIffAgeAtLeastWindow ==
    LET cacheResult == GetCachedData(cacheFile, files, now) IN
    cacheResult.hit =>
        (cacheResult.isStale <=>
            now - JSONparse(cacheFile.text).timestamp >= FreshnessWindow)

\* a record whose age is exactly the window is loaded as stale
C9_Witness ==
    /\ GetCachedData(cacheFile, files, now).hit
    /\ GetCachedData(cacheFile, files, now).isStale
    /\ now - JSONparse(cacheFile.text).timestamp = FreshnessWindow

\* a record one millisecond younger than the window is loaded as fresh
C9_FreshBelowWindow ==
    /\ GetCachedData(cacheFile, files, now).hit
    /\ ~GetCachedData(cacheFile, files, now).isStale
    /\ now - JSONparse(cacheFile.text).timestamp = FreshnessWindow - 1

\* C10: a read in demo mode that finds no valid cache answers 200 with the
\* empty list, makes no upstream call (no fetch is awaited, no refresh is
\* queued) and leaves the record, the Image Store and the refresh flag
\* unchanged.
C10_DemoMissIsEmptyAndInert ==
    [][(/\ last'.op = "read" /\ last'.demoMode
        /\ ~GetCachedData(cacheFile, files, now).hit)
       => /\ last'.status = 200
          /\ last'.body = <<>>
          /\ req' = req
          /\ task' = task
          /\ UNCHANGED <<cacheFile, files, dirExists, isRefreshing>>]_vars

\* a demo read was answered [] although a record is persisted (one of its
\* blobs is missing) and a credential is configured
C10_Witness ==
    /\ last.op = "read" /\ last.demoMode /\ last.status = 200
    /\ last.body = <<>>
    /\ apiKeySet
    /\ cacheFile.exists
    /\ ~GetCachedData(cacheFile, files, now).hit


\* C11: a read in demo mode that loads a stale record answers 200 with
\* its id list and neither queues nor starts a refresh; no demo-mode read,
\* whatever it loads, sets the refresh flag, queues a refresh or awaits an
\* upstream call, so no sequence of demo-mode reads ever does.
C11_DemoReadNeverRefreshes ==
    [][(last'.op = "read" /\ last'.demoMode)
       => /\ task' = task
          /\ req' = req
          /\ UNCHANGED <<isRefreshing, cacheFile, files, dirExists>>
          /\ LET cacheResult == GetCachedData(cacheFile, files, now) IN
             (cacheResult.hit /\ cacheResult.isStale)
             => /\ last'.status = 200
                /\ last'.body = JSONparse(cacheFile.text).data]_vars

\* a demo read was served a stale record of two items, with a credential
\* configured, and nothing is queued or running
C11_Witness ==
    /\ last.op = "read" /\ last.demoMode /\ last.status = 200
    /\ Len(last.body) = 2
    /\ apiKeySet
    /\ GetCachedData(cacheFile, files, now).isStale
    /\ \A t \in Tasks : task[t] = NoTask
    /\ ~isRefreshing


\* C12: when a non-demo read found the cache absent and the bulk list call
\* of its synchronous fetch fails (rejected, error status, or an empty
\* list), the read is answered 200 with an empty id list, and the step
\* writes no record and no blob.
C12_FailedSyncFetchAnswersEmpty ==
    [][\A r \in Reqs :
         (req[r].pc = "list" /\ req'[r].pc = "idle")
         => /\ last'.status = 200
            /\ last'.body = <<>>
            /\ UNCHANGED <<cacheFile, files>>]_vars

\* the synchronous fetch of a read has just failed at the bulk call, was
\* answered 200 with [], and there is still no record
C12_Witness ==
    /\ last.op = "sync" /\ last.out = "list_failed"
    /\ last.status = 200 /\ last.body = <<>>
    /\ apiKeySet
    /\ ~cacheFile.exists


\* C13: a non-demo read that finds the cache absent while no provider
\* credential is configured is answered with status 500, not with a
\* successful list.
C13_MissingCredentialIs500 ==
    [][(/\ last'.op = "read"
        /\ ~last'.demoMode
        /\ ~GetCachedData(cacheFile, files, now).hit
        /\ ~apiKeySet)
       => last'.status = 500]_vars


\* C14: in the state right after a cache-clear there is no record file and
\* no file, final-named or temp-named, in the image directory; this holds
\* from every reachable state, a refresh or a synchronous fetch in flight
\* included.
C14_ClearLeavesNothing ==
    [][last'.op = "clear"
       => /\ ~cacheFile'.exists
          /\ ~GetCachedData(cacheFile', files', now').hit
          /\ files' = {}]_vars

\* a clear has just run while a refresh that had already staged a file was
\* between two downloads, and nothing is left on disk
C14_Witness ==
    /\ last.op = "clear"
    /\ \E t \in Tasks : /\ task[t].pc = "dl"
                        /\ Len(task[t].downloadedImages) > 0
    /\ files = {}
    /\ ~cacheFile.exists

\* C15: a cache-clear always answers 200; called with no record and no
\* blob it changes nothing, and a clear that directly follows a clear
\* leaves the state the first one left.
C15_ClearIdempotent ==
    [][last'.op = "clear"
       => /\ last'.status = 200
          /\ ((~cacheFile.exists /\ files = {}) \/ last.op = "clear")
             => UNCHANGED <<cacheFile, files, dirExists, isRefreshing, req,
                            task, now, apiKeySet>>]_vars

\* a clear has just run on a deployment that never cached anything
C15_Witness ==
    /\ last.op = "clear" /\ last.status = 200
    /\ ~dirExists
    /\ files = {}
    /\ cacheFile = NoCacheFile


\* the items of data whose download succeeded, in the order of data
RECURSIVE Succeeded(_, _)
Succeeded(data, attempts) ==
    IF data = <<>> \/ attempts = <<>> THEN <<>>
    ELSE (IF Head(attempts) THEN <<Head(data)>> ELSE <<>>)
         \o Succeeded(Tail(data), Tail(attempts))

\* C16: a refresh that fetched the list and downloaded at least one item
\* saves a record whose items are exactly those that downloaded in this
\* cycle, in the order of the upstream list; each download step moves on to
\* the next item whether it succeeded or not, so a failed item is left out
\* and not tried again; and a read that loads a record answers its ids in
\* the order of the record.
C16_RefreshRecordIsSuccessesInOrder ==
    [][/\ \A t \in Tasks :
            task[t].pc = "dl"
            => /\ Len(task[t].attempts) = task[t].idx - 1
               /\ IF task'[t].pc = "dl"
                  THEN \/ task'[t] = task[t]
                       \/ /\ task'[t].data = task[t].data
                          /\ task'[t].idx = task[t].idx + 1
                          /\ task'[t].attempts
                                = Append(task[t].attempts, last'.ok)
                          /\ task'[t].imagesWithUrls
                                = Succeeded(task'[t].data, task'[t].attempts)
                  ELSE LET done == Succeeded(task[t].data,
                                             Append(task[t].attempts,
                                                    last'.ok))
                       IN  /\ last'.out = "saved"
                              => JSONparse(cacheFile'.text).data = done
                           /\ last'.out \in {"saved", "save_failed"}
                              <=> done # <<>>
                           /\ last'.out # "saved" => cacheFile' = cacheFile
       /\ (last'.op = "read" /\ GetCachedData(cacheFile, files, now).hit)
          => last'.body = JSONparse(cacheFile.text).data]_vars

\* a refresh whose first item downloaded and whose second item failed has
\* just saved a record that holds the first item only
C16_Witness ==
    /\ last.op = "refresh" /\ last.out = "saved" /\ ~last.ok
    /\ Len(last.body) = 1
    /\ cacheFile.exists
    /\ JSONparse(cacheFile.text).data = last.body


\* C17: in a refresh that fetched the list, as long as no download has
\* succeeded no step of the cycle changes the record file or the blob set;
\* the cycle that ends with zero downloads ends without publishing or
\* saving.
C17_ZeroDownloadsTouchNothing ==
    [][\A t \in Tasks :
         (/\ task[t].pc \in {"list", "dl"}
          /\ task'[t] # task[t]
          /\ \A i \in 1..Len(task[t].attempts) : ~task[t].attempts[i]
          /\ ~last'.ok)
         => /\ UNCHANGED <<cacheFile, files>>
            /\ (task[t].pc = "dl" /\ task'[t].pc = "none")
               => last'.out = "nothing"]_vars

\* a refresh has just ended with every download failed, and the record and
\* the blobs of the old cache are still there
C17_Witness ==
    /\ last.op = "refresh" /\ last.out = "nothing"
    /\ GetCachedData(cacheFile, files, now).hit
    /\ Len(GetCachedData(cacheFile, files, now).data) = 2
    /\ ~isRefreshing


\* C18: when the synchronous fetch of a read got the list but every
\* download failed, the step that ends the fetch creates no record: the
\* record file is left as it was and a read that follows finds the cache
\* absent again.
C18_SyncZeroDownloadsSavesNothing ==
    [][\A r \in Reqs :
         (/\ req[r].pc = "dl" /\ req'[r].pc = "idle"
          /\ req[r].imagesWithUrls = <<>>
          /\ ~last'.ok
          /\ ~GetCachedData(cacheFile, files, now).hit)
         => /\ cacheFile' = cacheFile
            /\ ~GetCachedData(cacheFile', files', now').hit]_vars


\* a synchronous fetch that has written a blob and has not saved yet
SyncCyclesWriting ==
    {r \in Reqs : req[r].pc = "dl" /\ req[r].imagesWithUrls # <<>>}

\* a refresh that has staged a blob and has not published yet
RefreshCyclesWriting ==
    {t \in Tasks : task[t].pc = "dl" /\ task[t].downloadedImages # <<>>}

\* C19: the blob writes, deletions, renames and the record save of one
\* fetch-and-cache cycle are never interleaved with those of another: at
\* most one cycle, synchronous or background, is between its first blob
\* write and its record save.
C19_NoTwoCyclesWriting ==
    Cardinality(SyncCyclesWriting) + Cardinality(RefreshCyclesWriting) <= 1


\* C20: in every fetch-and-cache cycle a blob comes to exist under a final
\* name only through the rename step of publish, so a step that adds a
\* final-named file is the step in which a refresh publishes; no step writes
\* downloaded bytes straight to a final name.
C20_FinalNamesOnlyByRename ==
    [][(\E f \in files' \ files : f.kind = "final")
       => \E t \in Tasks :
             /\ task[t].pc = "dl" /\ task'[t].pc = "none"
             /\ last'.op = "refresh" /\ last'.who = t]_vars


\* the temp files of a batch
TempPaths(downloadedImages) ==
    {downloadedImages[i].tempPath : i \in 1..Len(downloadedImages)}

\* C21: within a refresh, no step before the last one deletes a file or
\* writes the record; files are pruned only in the step that ends the loop
\* over the upstream list, after every item was attempted and with at least
\* one staged; the renames come after the pruning, so every staged item is
\* under its final name afterwards; and the record is written only in that
\* step, after the renames: when the staged files are pairwise distinct
\* and in place as publish starts, no file of the batch is left under a
\* temp name as the record is written.
C21_PruneAfterStagingSaveAfterRename ==
    [][\A t \in Tasks :
         (task[t].pc \in {"list", "dl"} /\ task'[t] # task[t])
         => LET ends == task[t].pc = "dl" /\ task'[t].pc = "none"
                done == Append(task[t].attempts, last'.ok)
                saved == cacheFile' # cacheFile
            IN  /\ ~ends => /\ files \subseteq files'
                            /\ last'.pruned = {}
                            /\ ~saved
                /\ (files \ files' # {} \/ last'.pruned # {} \/ saved)
                   => /\ task[t].idx = Len(task[t].data)
                      /\ Len(done) = Len(task[t].data)
                      /\ \E i \in 1..Len(done) : done[i]
                /\ (ends /\ last'.pruned # {}
                         /\ Distinct(last'.body)
                         /\ TempPaths(task[t].downloadedImages) \subseteq files)
                   => FinalNames(last'.body) \subseteq files'
                /\ (saved /\ Distinct(last'.body)
                          /\ TempPaths(task[t].downloadedImages)
                                  \subseteq files)
                   => /\ last'.pruned \cap files' \subseteq
                             FinalNames(last'.body)
                      /\ \A f \in files' :
                            f.kind = "temp" => f.id \notin
                               {last'.body[i] : i \in 1..Len(last'.body)}]_vars

\* a refresh has just pruned the blob of the old set, published a blob the
\* old set did not have and saved the record
C21_Witness ==
    /\ last.op = "refresh" /\ last.out = "saved"
    /\ last.pruned # {}
    /\ \E f \in last.pruned : f.kind = "final" /\ f \notin files
    /\ files = FinalNames(last.body)


\* C22: publish deletes only final-named blobs whose id is not in the
\* batch: a final-named blob of an id that is in the new batch is not
\* among the files publish unlinks.
C22_PublishKeepsBatchFinals ==
    [][\A f \in last'.pruned :
          f.kind = "final" => f \notin FinalNames(last'.body)]_vars


\* C23: when the write of the record fails at the end of the synchronous
\* fetch of a read, the read is still answered 200 with the ids of the
\* items it fetched, the record file is left as it was, and the refresh
\* flag is unchanged.
C23_FailedSaveIsSwallowed ==
    [][\A r \in Reqs :
         (/\ req[r].pc = "dl" /\ req'[r].pc = "idle"
          /\ last'.out = "save_failed")
         => /\ last'.status = 200
            /\ last'.body =
                  IF last'.ok
                  THEN Append(req[r].imagesWithUrls, req[r].data[req[r].idx])
                  ELSE req[r].imagesWithUrls
            /\ UNCHANGED <<cacheFile, isRefreshing>>]_vars

\* the save at the end of a synchronous fetch of two items has just failed
\* while an earlier record was on disk; the read was answered with both
\* ids and the earlier record is still there
C23_Witness ==
    /\ last.op = "sync" /\ last.out = "save_failed"
    /\ last.status = 200 /\ Len(last.body) = 2
    /\ cacheFile.exists


\* no synchronous fetch and no refresh is between its start and its end
NoCycleInFlight ==
    /\ \A r \in Reqs : req[r].pc = "idle"
    /\ \A t \in Tasks : task[t].pc \in {"none", "scheduled"}

\* C24: at rest, that is in every state in which no fetch-and-cache cycle
\* is in flight, a record on disk names only ids whose blob is in the image
\* directory under its final name.
C24_RecordNamesOnlyExistingBlobs ==
    (NoCycleInFlight /\ cacheFile.exists)
    => FinalNames(JSONparse(cacheFile.text).data) \subseteq files


\* C25: a refresh writes the new record only if publish went through: when
\* a staged temp file is gone as publish starts (a cache-clear ran during
\* staging), so that its rename fails, the step that ends the cycle leaves
\* the record file as it was.
C25_NoSaveAfterFailedPublish ==
    [][\A t \in Tasks :
         (/\ task[t].pc = "dl" /\ task'[t].pc = "none"
          /\ ~(TempPaths(task[t].downloadedImages) \subseteq files))
         => cacheFile' = cacheFile]_vars


\* what a read would load before and after the step
LoadBefore == GetCachedData(cacheFile, files, now)
LoadAfter  == GetCachedData(cacheFile', files', now')

\* the step is one of refresh t, none of whose staged files was removed
RefreshStepUndisturbed(t) ==
    /\ task[t].pc \in {"list", "dl"}
    /\ task'[t] # task[t]
    /\ TempPaths(task[t].downloadedImages) \subseteq files

\* after the step a read loads the list it would have loaded before, or,
\* if the step ended refresh t, the list of that refresh
LoadsOldOrNew(t) ==
    /\ LoadAfter.hit
    /\ \/ LoadAfter.data = LoadBefore.data
       \/ /\ task[t].pc = "dl" /\ task'[t].pc = "none"
          /\ LoadAfter.data = last'.body

\* C26: publish and save are one step, so across every step of a refresh
\* that no cache-clear disturbed, a read that would have loaded the old
\* list before the step loads, after it, the complete old list or the
\* complete new one, and never misses.
C26_ReadSeesOldOrNewList ==
    [][\A t \in Tasks :
         (RefreshStepUndisturbed(t) /\ LoadBefore.hit) => LoadsOldOrNew(t)]_vars

\* the synchronous fetches between the cache miss of their read and its
\* answer
RunningSyncs == {r \in Reqs : req[r].pc \in {"list", "dl"}}

\* C27: at most one fetch-and-cache cycle of any kind is in flight at a
\* time: the synchronous fetch of a read never runs while a refresh, or the
\* synchronous fetch of another read, is between its start and its end.
C27_OneCycleOfAnyKind ==
    Cardinality(RunningSyncs) + Cardinality(RunningTasks) <= 1


\* a non-demo read has just answered a stale record and queued the refresh
StaleReadQueuedRefresh ==
    /\ last.op = "read" /\ last.out = "hit_refresh" /\ ~last.demoMode

\* a refresh has just saved; the record on disk bears the current time and
\* is fresh, and the flag is down, so that a read would queue nothing; and
\* the record loads with the saved list if its ids are pairwise distinct
Revalidated ==
    /\ last.op = "refresh" /\ last.out = "saved"
    /\ ~isRefreshing
    /\ cacheFile.exists
    /\ JSONparse(cacheFile.text).timestamp = now
    /\ ~IsStale(now, JSONparse(cacheFile.text).timestamp)
    /\ LET cacheResult == GetCachedData(cacheFile, files, now) IN
          /\ ~ShouldRefresh(cacheResult, FALSE)
          /\ Distinct(last.body)
             => (cacheResult.hit /\ cacheResult.data = last.body)

\* what the claim sets aside has just happened: a cache-clear, a refresh
\* without credential or whose list fetch failed, a refresh without a
\* single download, or a record write that failed
RevalidationPrevented ==
    \/ last.op = "clear"
    \/ /\ last.op = "refresh"
       /\ last.out \in {"nokey", "list_failed", "nothing", "save_failed"}

\* C28: revalidation converges.  After a non-demo read of a stale record
\* has queued the refresh, eventually a refresh has saved a record that
\* bears the time of the save and is fresh, with the flag reset, so that a
\* read at that time queues no further refresh; unless a cache-clear, a
\* failed list fetch, a cycle without a download or a failed record write
\* comes first.
C28_RevalidationConverges ==
    StaleReadQueuedRefresh ~> (Revalidated \/ RevalidationPrevented)

\* a refresh queued by a read of a record 12 hours old has saved two items
\* at the current time and the flag is down
C28_Witness ==
    /\ Revalidated
    /\ now >= CACHE_DURATION
    /\ Len(last.body) = 2 /\ Distinct(last.body)
    /\ \A t \in Tasks : task[t].pc = "none"

====
